---- MODULE Spec2Model ----
(***************************************************************************)
(* Archetype storage of caolo-entities (src/src/db.rs), the world-level    *)
(* operations built on it, and the construction of system stages           *)
(* (src/src/systems.rs, src/src/query_set.rs).                             *)
(*                                                                         *)
(* A PageTable<T> is a finite function from row index to value; its domain *)
(* is the set of rows that hold a value.  An Option<T> is the empty        *)
(* sequence (None) or a one-element sequence (Some(v)).                    *)
(***************************************************************************)
EXTENDS Integers, Sequences, FiniteSets, TLC

\* ------------------------------------------------------------------ bounds
MaxEntities == 3    \* entity ids that may be allocated
MaxValue == 2       \* component values are 1..MaxValue
MaxInserts == 6     \* calls of insert_entity (direct or through move_entity)
MaxCalls == 5       \* calls of the ArchetypeStorage interface made directly
MaxSystems == 2     \* systems added to a stage

EntityIds == 1..MaxEntities
Values == 1..MaxValue
\* a row index returned by insert_entity is below the number of insertions made
Rows == 0..MaxInserts

\* ------------------------------------------------------- component types
\* "Unit" is the type `()` of the dummy column; Pos and Vel are components.
Components == {"Pos", "Vel"}
Types == {"Unit"} \cup Components

\* the values a column of type t can hold: `()` has a single value
ValuesOf(t) == IF t = "Unit" THEN {1} ELSE Values

\* bitwise exclusive or of two naturals (the `^` of TypeHash)
RECURSIVE BitXor(_, _)
BitXor(a, b) ==
    IF a = 0 THEN b
    ELSE IF b = 0 THEN a
    ELSE (((a % 2) + (b % 2)) % 2) + (2 * BitXor(a \div 2, b \div 2))

\* hash_ty::<T>(): a fixed per-type hash; distinct types hash to distinct,
\* XOR-independent values
hash_ty(t) ==
    CASE t = "Unit" -> 5
      [] t = "Pos" -> 9
      [] t = "Vel" -> 18

\* ---------------------------------------------------------------- options
None == << >>
Some(v) == << v >>

\* ------------------------------------------------------------- PageTable
PageTableNew == << >>
PageTableInsert(t, r, v) ==
    [x \in (DOMAIN t) \cup {r} |-> IF x = r THEN v ELSE t[x]]
PageTableRemove(t, r) == [x \in (DOMAIN t) \ {r} |-> t[x]]
PageTableGet(t, r) == IF r \in DOMAIN t THEN Some(t[r]) ELSE None

\* ------------------------------------------------------ ArchetypeStorage
empty ==
    [ty |-> hash_ty("Unit"),
     rows |-> 0,
     entities |-> PageTableNew,
     components |-> [t \in {"Unit"} |-> PageTableNew]]

len(self) == self.rows

is_empty(self) == len(self) = 0

\* remove that leaves the component columns alone
remove_keep_columns(self, row_index) ==
    [self EXCEPT
        !.entities = PageTableRemove(self.entities, row_index),
        !.rows = self.rows - 1]

\* remove: every column drops the row, then the entities column, then rows -= 1
remove(self, row_index) ==
    [self EXCEPT
        !.components = [t \in DOMAIN self.components |->
                          PageTableRemove(self.components[t], row_index)],
        !.entities = PageTableRemove(self.entities, row_index),
        !.rows = self.rows - 1]

\* insert_entity: the new row index is the current value of `rows`
insert_entity(self, id) ==
    [self |-> [self EXCEPT
                  !.entities = PageTableInsert(self.entities, self.rows, id),
                  !.rows = self.rows + 1],
     res |-> self.rows]

\* move_row of a column of type T: take the value at entity_id out of src and,
\* when there was one, insert it into dst at the same index entity_id
move_row(src, dst, entity_id) ==
    IF entity_id \in DOMAIN src
    THEN [src |-> PageTableRemove(src, entity_id),
          dst |-> PageTableInsert(dst, entity_id, src[entity_id])]
    ELSE [src |-> src, dst |-> dst]

\* move_entity: rows -= 1; entities.remove(index).unwrap(); dst.insert_entity;
\* then move_row for every column of self that dst carries too.
\* failed = the unwrap panicked (after rows was decremented).
move_entity(self, dst, index) ==
    IF index \notin DOMAIN self.entities
    THEN [self |-> [self EXCEPT !.rows = self.rows - 1],
          dst |-> dst, res |-> 0, failed |-> TRUE]
    ELSE
      LET entity_id == self.entities[index]
          ins == insert_entity(dst, entity_id)
          shared == (DOMAIN self.components) \cap (DOMAIN dst.components)
          moved == [t \in shared |->
                      move_row(self.components[t], ins.self.components[t], index)]
      IN [self |-> [self EXCEPT
                      !.rows = self.rows - 1,
                      !.entities = PageTableRemove(self.entities, index),
                      !.components = [t \in DOMAIN self.components |->
                                        IF t \in shared THEN moved[t].src
                                        ELSE self.components[t]]],
          dst |-> [ins.self EXCEPT
                      !.components = [t \in DOMAIN dst.components |->
                                        IF t \in shared THEN moved[t].dst
                                        ELSE ins.self.components[t]]],
          res |-> ins.res,
          failed |-> FALSE]

contains_column(self, T) == T \in DOMAIN self.components

\* set_component without entities.insert(row_index, id)
set_component_no_entity(self, id, row_index, T, val) ==
    IF T \in DOMAIN self.components
    THEN [self |-> [self EXCEPT
                      !.components[T] =
                         PageTableInsert(self.components[T], row_index, val)],
          failed |-> FALSE]
    ELSE [self |-> self, failed |-> TRUE]

\* set_component: entities.insert(row_index, id) comes first, then the lookup
\* of the column, which fails on an archetype that does not carry T
set_component(self, id, row_index, T, val) ==
    LET withId == [self EXCEPT
                      !.entities = PageTableInsert(self.entities, row_index, id)]
    IN IF T \in DOMAIN self.components
       THEN [self |-> [withId EXCEPT
                         !.components[T] =
                            PageTableInsert(self.components[T], row_index, val)],
             failed |-> FALSE]
       ELSE [self |-> withId, failed |-> TRUE]

\* extended_hash with `+` in place of `^`
extended_hash_add(self, T) == self.ty + hash_ty(T)

\* extended_hash as a shift-and-xor combiner, which depends on the order
extended_hash_shift(self, T) == BitXor(2 * self.ty, hash_ty(T))

extended_hash(self, T) == BitXor(self.ty, hash_ty(T))

\* clone_empty as a full clone
clone_all(self) == self

\* clone_empty: the same ty and column keys, every column empty, rows = 0
clone_empty(self) ==
    [ty |-> self.ty,
     rows |-> 0,
     entities |-> PageTableNew,
     components |-> [t \in DOMAIN self.components |-> PageTableNew]]

\* extend_with_column: assert!(!contains_column::<T>()), else a clone_empty
\* with the XORed hash and one more (empty) column
extend_with_column(self, T) ==
    IF contains_column(self, T)
    THEN [res |-> None, failed |-> TRUE]
    ELSE LET result == clone_empty(self)
         IN [res |-> Some([result EXCEPT
                             !.ty = extended_hash(self, T),
                             !.components =
                                [t \in (DOMAIN result.components) \cup {T} |->
                                    IF t = T THEN PageTableNew
                                    ELSE result.components[t]]]),
             failed |-> FALSE]

\* reduce_with_column that XORs the hash but leaves the column in
reduce_with_column_keep(self, T) ==
    IF ~contains_column(self, T)
    THEN [res |-> None, failed |-> TRUE]
    ELSE [res |-> Some([clone_empty(self) EXCEPT !.ty = extended_hash(self, T)]),
          failed |-> FALSE]

\* reduce_with_column: assert!(contains_column::<T>()), else a clone_empty
\* with the XORed hash and without the column
reduce_with_column(self, T) ==
    IF ~contains_column(self, T)
    THEN [res |-> None, failed |-> TRUE]
    ELSE LET result == clone_empty(self)
         IN [res |-> Some([result EXCEPT
                             !.ty = extended_hash(self, T),
                             !.components =
                                [t \in (DOMAIN result.components) \ {T} |->
                                    result.components[t]]]),
             failed |-> FALSE]

get_component(self, T, row) ==
    IF T \in DOMAIN self.components
    THEN PageTableGet(self.components[T], row)
    ELSE None


\* the keys of a page table in ascending order
RECURSIVE Ascending(_)
Ascending(S) ==
    IF S = {} THEN << >>
    ELSE LET m == CHOOSE x \in S : \A y \in S : x <= y
         IN  << m >> \o Ascending(S \ {m})

\* PageTable::iter: the (row, value) entries in ascending row order
PageTableIter(t) ==
    LET rows == Ascending(DOMAIN t)
    IN  [i \in 1..Len(rows) |-> << rows[i], t[rows[i]] >>]

\* Queryable<&T>::iter and QueryIt::next: the values of the T column in
\* ascending row order, without their rows; nothing when there is no T column
iter(self, T) ==
    IF T \in DOMAIN self.components
    THEN LET it == PageTableIter(self.components[T])
         IN  [i \in 1..Len(it) |-> it[i][2]]
    ELSE << >>

\* ComponentQuery<(&T1, &T2)>::iter: it1.zip(it2), which ends with the shorter
iter2(self, T1, T2) ==
    LET it1 == iter(self, T1)
        it2 == iter(self, T2)
        n == IF Len(it1) <= Len(it2) THEN Len(it1) ELSE Len(it2)
    IN  [i \in 1..n |-> << it1[i], it2[i] >>]

\* ------------------------------------------------------------------ state
VARIABLES
    archetypes,   \* World.archetypes: archetype hash -> ArchetypeStorage
    index,        \* EntityIndex: live entity id -> [arch, row]
    next_id,      \* the next entity id to allocate
    handed,       \* history: <<archetype hash, row>> of every insert_entity call
    last,         \* history: the last call, its arguments, results and pre-state
    calls,        \* number of direct calls of the ArchetypeStorage interface
    panicked,     \* a call panicked; the program has stopped
    stage,        \* SystemStage.systems: the erased systems, in the order added
    accessed,     \* the last access set a system's closure was asked for
    running,      \* indices of the stage's systems that are executing
    finished      \* indices of the stage's systems that have returned

vars == << archetypes, index, next_id, handed, last, calls, panicked,
           stage, accessed, running, finished >>

\* the variables of the storage and of the stage
storeVars == << archetypes, index, next_id, handed, last, calls >>
stageVars == << stage, accessed, running, finished >>

Put(f, k, v) == [x \in (DOMAIN f) \cup {k} |-> IF x = k THEN v ELSE f[x]]

\* what World.get_component and the archetype of an entity show of it
Obs(archs, idx, e) ==
    IF e \in DOMAIN idx /\ idx[e].arch \in DOMAIN archs
    THEN LET A == archs[idx[e].arch]
         IN Some([ty |-> A.ty,
                  types |-> DOMAIN A.components,
                  vals |-> [t \in Types |-> get_component(A, t, idx[e].row)]])
    ELSE None

NoCall ==
    [op |-> "none", arch |-> 0, dst |-> 0, id |-> 0, ty |-> "Unit", val |-> 0,
     row |-> 0, res |-> 0, failed |-> FALSE, result |-> None,
     pre |-> << >>, obs |-> None,
     prev |-> [op |-> "none", id |-> 0, ty |-> "Unit", obs |-> None]]

\* the record of a call: `c` gives the fields that differ from NoCall
Call(c) ==
    [f \in DOMAIN NoCall |->
        IF f \in DOMAIN c THEN c[f]
        ELSE IF f = "pre" THEN archetypes
        ELSE IF f = "prev"
             THEN [op |-> last.op, id |-> last.id, ty |-> last.ty, obs |-> last.obs]
        ELSE NoCall[f]]

Init ==
    /\ archetypes = [k \in {empty.ty} |-> empty]
    /\ index = << >>
    /\ next_id = 1
    /\ handed = << >>
    /\ last = NoCall
    /\ calls = 0
    /\ panicked = FALSE
    /\ stage = << >>
    /\ accessed = [system |-> 0, which |-> "none", param |-> << >>,
                   incoming |-> {}, set |-> {}, failed |-> FALSE]
    /\ running = {}
    /\ finished = {}

\* ------------------------------------------------------------------ World
\* spawn: allocate an id, insert_entity into the empty archetype, record the index
Spawn ==
    /\ ~panicked
    /\ next_id <= MaxEntities
    /\ Len(handed) < MaxInserts
    /\ LET a == empty.ty
           ins == insert_entity(archetypes[a], next_id)
       IN /\ archetypes' = [archetypes EXCEPT ![a] = ins.self]
          /\ index' = Put(index, next_id, [arch |-> a, row |-> ins.res])
          /\ handed' = Append(handed, << a, ins.res >>)
          /\ last' = Call([op |-> "spawn", arch |-> a, id |-> next_id,
                           res |-> ins.res])
    /\ next_id' = next_id + 1
    /\ UNCHANGED << calls, panicked, stageVars >>

\* despawn: look up (archetype, row), remove the row, forget the id
Despawn(e) ==
    /\ ~panicked
    /\ e \in DOMAIN index
    /\ LET a == index[e].arch
           row == index[e].row
       IN /\ archetypes' = [archetypes EXCEPT ![a] = remove(archetypes[a], row)]
          /\ last' = Call([op |-> "despawn", arch |-> a, id |-> e, row |-> row,
                           obs |-> Obs(archetypes, index, e)])
    /\ index' = [x \in (DOMAIN index) \ {e} |-> index[x]]
    /\ UNCHANGED << next_id, handed, calls, panicked, stageVars >>

\* the migration shared by insert_component and remove_component: resolve the
\* archetype of e, find or create the target, move_entity, then (insert only)
\* set_component of the new column, and update the index
Migrate(op, e, T, v, created) ==
    LET a == index[e].arch
        row == index[e].row
        A == archetypes[a]
        h == extended_hash(A, T)
        withB == IF h \in DOMAIN archetypes THEN archetypes
                 ELSE Put(archetypes, h, created[1])
        m == move_entity(A, withB[h], row)
        s == IF op = "insert_component"
             THEN set_component(m.dst, e, m.res, T, v)
             ELSE [self |-> m.dst, failed |-> FALSE]
        call == [op |-> op, arch |-> a, dst |-> h, id |-> e, ty |-> T, val |-> v,
                 row |-> row, res |-> m.res,
                 obs |-> Obs(archetypes, index, e)]
    IN IF m.failed
       THEN /\ archetypes' = [withB EXCEPT ![a] = m.self]
            /\ last' = Call(call @@ [failed |-> TRUE])
            /\ panicked' = TRUE
            /\ UNCHANGED << index, handed >>
       ELSE /\ archetypes' = [withB EXCEPT ![a] = m.self, ![h] = s.self]
            /\ index' = [index EXCEPT ![e] = [arch |-> h, row |-> m.res]]
            /\ handed' = Append(handed, << h, m.res >>)
            /\ last' = Call(call @@ [failed |-> s.failed])
            /\ panicked' = s.failed

InsertComponent(e, T, v) ==
    /\ ~panicked
    /\ e \in DOMAIN index
    /\ Len(handed) < MaxInserts
    /\ ~contains_column(archetypes[index[e].arch], T)
    /\ Migrate("insert_component", e, T, v,
               extend_with_column(archetypes[index[e].arch], T).res)
    /\ UNCHANGED << next_id, calls, stageVars >>

RemoveComponent(e, T) ==
    /\ ~panicked
    /\ e \in DOMAIN index
    /\ Len(handed) < MaxInserts
    /\ contains_column(archetypes[index[e].arch], T)
    /\ Migrate("remove_component", e, T, 0,
               reduce_with_column(archetypes[index[e].arch], T).res)
    /\ UNCHANGED << next_id, calls, stageVars >>

Next ==
    \/ Spawn
    \/ \E e \in EntityIds : Despawn(e)
    \/ \E e \in EntityIds, T \in Components, v \in Values : InsertComponent(e, T, v)
    \/ \E e \in EntityIds, T \in Components : RemoveComponent(e, T)

Spec == Init /\ [][Next]_vars

\* ------------------------------------------- ArchetypeStorage, called directly
\* The interface of one ArchetypeStorage driven by an arbitrary caller that
\* keeps the storages it builds in `archetypes` (by hash).  remove, move_entity
\* and set_component are called on rows that hold an entity; set_component is
\* given the id the row holds or an id that no row holds yet.
Direct == ~panicked /\ calls < MaxCalls

AInsertEntity(a) ==
    /\ Direct
    /\ a \in DOMAIN archetypes
    /\ next_id <= MaxEntities
    /\ LET ins == insert_entity(archetypes[a], next_id)
       IN /\ archetypes' = [archetypes EXCEPT ![a] = ins.self]
          /\ handed' = Append(handed, << a, ins.res >>)
          /\ last' = Call([op |-> "insert_entity", arch |-> a, id |-> next_id,
                           res |-> ins.res])
    /\ next_id' = next_id + 1
    /\ calls' = calls + 1
    /\ UNCHANGED << index, panicked, stageVars >>

ARemove(a, row) ==
    /\ Direct
    /\ a \in DOMAIN archetypes
    /\ row \in DOMAIN archetypes[a].entities
    /\ archetypes' = [archetypes EXCEPT ![a] = remove(archetypes[a], row)]
    /\ last' = Call([op |-> "remove", arch |-> a, row |-> row])
    /\ calls' = calls + 1
    /\ UNCHANGED << index, next_id, handed, panicked, stageVars >>

AMoveEntity(a, b, row) ==
    /\ Direct
    /\ a \in DOMAIN archetypes /\ b \in DOMAIN archetypes /\ a # b
    /\ row \in DOMAIN archetypes[a].entities
    /\ LET m == move_entity(archetypes[a], archetypes[b], row)
       IN /\ archetypes' = [archetypes EXCEPT ![a] = m.self, ![b] = m.dst]
          /\ handed' = Append(handed, << b, m.res >>)
          /\ last' = Call([op |-> "move_entity", arch |-> a, dst |-> b,
                           id |-> archetypes[a].entities[row],
                           row |-> row, res |-> m.res, failed |-> m.failed])
          /\ panicked' = m.failed
    /\ calls' = calls + 1
    /\ UNCHANGED << index, next_id, stageVars >>

ASetComponent(a, id, row, T, v) ==
    /\ Direct
    /\ a \in DOMAIN archetypes
    /\ row \in DOMAIN archetypes[a].entities
    /\ LET s == set_component(archetypes[a], id, row, T, v)
       IN /\ archetypes' = [archetypes EXCEPT ![a] = s.self]
          /\ last' = Call([op |-> "set_component", arch |-> a, id |-> id,
                           ty |-> T, val |-> v, row |-> row, failed |-> s.failed])
          /\ panicked' = s.failed
    /\ calls' = calls + 1
    /\ UNCHANGED << index, next_id, handed, stageVars >>

\* the storage a constructor returned is kept under its hash unless one is there
Keep(r) ==
    IF r.failed \/ r.res[1].ty \in DOMAIN archetypes THEN archetypes
    ELSE Put(archetypes, r.res[1].ty, r.res[1])

AExtendWithColumn(a, T) ==
    /\ Direct
    /\ a \in DOMAIN archetypes
    /\ LET r == extend_with_column(archetypes[a], T)
       IN /\ archetypes' = Keep(r)
          /\ last' = Call([op |-> "extend_with_column", arch |-> a, ty |-> T,
                           result |-> r.res, failed |-> r.failed])
          /\ panicked' = r.failed
    /\ calls' = calls + 1
    /\ UNCHANGED << index, next_id, handed, stageVars >>

AReduceWithColumn(a, T) ==
    /\ Direct
    /\ a \in DOMAIN archetypes
    /\ LET r == reduce_with_column(archetypes[a], T)
       IN /\ archetypes' = Keep(r)
          /\ last' = Call([op |-> "reduce_with_column", arch |-> a, ty |-> T,
                           result |-> r.res, failed |-> r.failed])
          /\ panicked' = r.failed
    /\ calls' = calls + 1
    /\ UNCHANGED << index, next_id, handed, stageVars >>

ACloneEmpty(a) ==
    /\ Direct
    /\ a \in DOMAIN archetypes
    /\ last' = Call([op |-> "clone_empty", arch |-> a,
                     result |-> Some(clone_empty(archetypes[a]))])
    /\ calls' = calls + 1
    /\ UNCHANGED << archetypes, index, next_id, handed, panicked, stageVars >>

ArchNext ==
    \/ \E a \in DOMAIN archetypes : AInsertEntity(a)
    \/ \E a \in DOMAIN archetypes : \E row \in DOMAIN archetypes[a].entities :
          ARemove(a, row)
    \/ \E a \in DOMAIN archetypes, b \in DOMAIN archetypes :
          \E row \in DOMAIN archetypes[a].entities : AMoveEntity(a, b, row)
    \/ \E a \in DOMAIN archetypes, T \in Types :
          \E row \in DOMAIN archetypes[a].entities, v \in ValuesOf(T) :
              \E id \in {archetypes[a].entities[row], next_id} \cap EntityIds :
                  ASetComponent(a, id, row, T, v)
    \/ \E a \in DOMAIN archetypes, T \in Types : AExtendWithColumn(a, T)
    \/ \E a \in DOMAIN archetypes, T \in Types : AReduceWithColumn(a, T)
    \/ \E a \in DOMAIN archetypes : ACloneEmpty(a)

ArchSpec == Init /\ [][ArchNext]_vars

\* ------------------------------------------------------ systems and stages
\* A parameter of a system is a Query over one component access (`&C` or
\* `&mut C`) or a QuerySet of two such queries.
Query(access, C) == [kind |-> "Query", access |-> access, ty |-> C, inner |-> << >>]
Queries == {Query(acc, C) : acc \in {"mut", "const"}, C \in Components}
QuerySet(q0, q1) ==
    [kind |-> "QuerySet", access |-> "none", ty |-> "none", inner |-> << q0, q1 >>]
QuerySets == {QuerySet(q0, q1) : q0 \in Queries, q1 \in Queries}

\* the parameter lists of the systems added: one parameter of either kind, or
\* two plain queries
ParamLists ==
    {<< p >> : p \in Queries \cup QuerySets}
        \cup {<< p, q >> : p \in Queries, q \in Queries}

\* a set of TypeIds under construction: `failed` once an insertion panicked
Access(set) == [set |-> set, failed |-> FALSE]

\* QueryFragment::types_mut of a query: `&mut C` inserts C into the write set
\* and panics when C is already there; `&C` writes nothing
types_mut(q, acc) ==
    IF acc.failed \/ q.access # "mut" THEN acc
    ELSE IF q.ty \in acc.set THEN [acc EXCEPT !.failed = TRUE]
    ELSE [acc EXCEPT !.set = acc.set \cup {q.ty}]

\* QueryFragment::types_const of a query: `&C` inserts C into the read set
types_const(q, acc) ==
    IF acc.failed \/ q.access # "const" THEN acc
    ELSE [acc EXCEPT !.set = acc.set \cup {q.ty}]

\* QuerySet::components_mut with every inner query's types_mut run on the one
\* incoming set, in order
QuerySetComponentsMutShared(p, acc) == types_mut(p.inner[2], types_mut(p.inner[1], acc))

\* QuerySet::components_mut: every inner query's types_mut runs on its own
\* clone of the incoming set, then the clones are added to the set
QuerySetComponentsMut(p, acc) ==
    LET set0 == types_mut(p.inner[1], acc)
        set1 == types_mut(p.inner[2], acc)
    IN IF acc.failed THEN acc
       ELSE [set |-> acc.set \cup set0.set \cup set1.set,
             failed |-> set0.failed \/ set1.failed]

\* QuerySet::components_const: every inner query's types_const on the set itself
QuerySetComponentsConst(p, acc) == types_const(p.inner[2], types_const(p.inner[1], acc))

\* WorldQuery::components_mut / components_const of one parameter
ParamComponentsMut(p, acc) ==
    IF p.kind = "QuerySet" THEN QuerySetComponentsMut(p, acc) ELSE types_mut(p, acc)
ParamComponentsConst(p, acc) ==
    IF p.kind = "QuerySet" THEN QuerySetComponentsConst(p, acc) ELSE types_const(p, acc)

\* the closures IntoSystem::system stores: a fresh set, then every parameter's
\* components_mut (components_const) on it, in parameter order
RECURSIVE FoldMut(_, _, _)
FoldMut(params, i, acc) ==
    IF i > Len(params) THEN acc
    ELSE FoldMut(params, i + 1, ParamComponentsMut(params[i], acc))
RECURSIVE FoldConst(_, _, _)
FoldConst(params, i, acc) ==
    IF i > Len(params) THEN acc
    ELSE FoldConst(params, i + 1, ParamComponentsConst(params[i], acc))
\* a closure that reports an empty read set
components_const_none(sys) == Access({})
components_mut(sys) == FoldMut(sys.params, 1, Access({}))
components_const(sys) == FoldConst(sys.params, 1, Access({}))

\* IntoSystem::system: the erased system keeps the callable (its parameter
\* list) and the access closures; it evaluates none of them
system(params) == [params |-> params]

\* SystemStage::with_system: systems.push(system.system())
WithSystem(params) ==
    /\ ~panicked
    /\ Len(stage) < MaxSystems
    /\ running = {} /\ finished = {}
    /\ stage' = Append(stage, system(params))
    /\ UNCHANGED << storeVars, panicked, accessed, running, finished >>

\* a caller asks system i for one of its access sets
CallAccess(i, which) ==
    /\ ~panicked
    /\ i \in 1..Len(stage)
    /\ LET r == IF which = "components_mut" THEN components_mut(stage[i])
                ELSE components_const(stage[i])
       IN /\ accessed' = [system |-> i, which |-> which, param |-> << >>,
                          incoming |-> {}, set |-> r.set, failed |-> r.failed]
          /\ panicked' = r.failed
    /\ UNCHANGED << storeVars, stage, running, finished >>

StageNext ==
    \/ \E params \in ParamLists : WithSystem(params)
    \/ \E i \in 1..MaxSystems, which \in {"components_mut", "components_const"} :
          CallAccess(i, which)

StageSpec == Init /\ [][StageNext]_vars

\* WorldQuery::components_mut / components_const of one parameter, called with
\* a set that already holds the types in `incoming`
CallWorldQuery(p, incoming, which) ==
    /\ ~panicked
    /\ LET r == IF which = "components_mut"
                THEN ParamComponentsMut(p, Access(incoming))
                ELSE ParamComponentsConst(p, Access(incoming))
       IN /\ accessed' = [system |-> 0, which |-> which, param |-> << p >>,
                          incoming |-> incoming, set |-> r.set,
                          failed |-> r.failed]
          /\ panicked' = r.failed
    /\ UNCHANGED << storeVars, stage, running, finished >>

QueryNext ==
    \E p \in Queries \cup QuerySets, incoming \in SUBSET Components,
       which \in {"components_mut", "components_const"} :
        CallWorldQuery(p, incoming, which)

QuerySpec == Init /\ [][QueryNext]_vars

\* conflict analysis over the access sets the systems' closures report:
\* write/write or write/read on the same type
Conflict(s, t) ==
    LET ws == components_mut(s).set
        rs == components_const(s).set
        wt == components_mut(t).set
        rt == components_const(t).set
    IN  \/ ws \cap (wt \cup rt) # {}
        \/ wt \cap rs # {}

\* some system of the stage has a write/write overlap in its own access set
BadAccess == \E k \in 1..Len(stage) : components_mut(stage[k]).failed

\* the scheduler starts system i of the stage: the access closures are
\* evaluated (a self-overlap is fatal), and the system waits for every
\* earlier system it conflicts with
StartSystem(i) ==
    /\ ~panicked
    /\ i \in 1..Len(stage)
    /\ i \notin running \cup finished
    /\ IF BadAccess
       THEN /\ panicked' = TRUE
            /\ UNCHANGED running
       ELSE /\ \A j \in 1..(i - 1) : Conflict(stage[j], stage[i]) => j \in finished
            /\ \A j \in running : ~Conflict(stage[j], stage[i])
            /\ running' = running \cup {i}
            /\ UNCHANGED panicked
    /\ UNCHANGED << storeVars, stage, accessed, finished >>

\* a running system returns
FinishSystem(i) ==
    /\ ~panicked
    /\ i \in running
    /\ running' = running \ {i}
    /\ finished' = finished \cup {i}
    /\ UNCHANGED << storeVars, panicked, stage, accessed >>

RunNext ==
    \/ \E params \in ParamLists : WithSystem(params)
    \/ \E i \in 1..MaxSystems : StartSystem(i)
    \/ \E i \in 1..MaxSystems : FinishSystem(i)

RunSpec == Init /\ [][RunNext]_vars

TypeOK ==
    /\ \A k \in DOMAIN archetypes : archetypes[k].rows >= 0
    /\ \A k \in DOMAIN archetypes : archetypes[k].ty = k


\* ----------------------------------------------------------- world claims
\* row r of archetype A is aligned: the entities column has an entry at r
\* exactly when every column of A.components has a value at r
Aligned(A, r) ==
    (r \in DOMAIN A.entities)
        <=> (\A t \in DOMAIN A.components : r \in DOMAIN A.components[t])

\* C1: column alignment. After every completed world-level operation, every
\* row of every archetype is aligned: entities has an entry at r if and only
\* if every column (the dummy `()` column included) has a value at r.
C1_ColumnAlignment ==
    ~panicked =>
        \A k \in DOMAIN archetypes : \A r \in Rows : Aligned(archetypes[k], r)

\* C3: index consistency. Every live entity e with index entry (arch, row)
\* satisfies archetypes[arch].entities[row] = e.
C3_IndexConsistency ==
    ~panicked =>
        \A e \in DOMAIN index :
            PageTableGet(archetypes[index[e].arch].entities, index[e].row) = Some(e)

\* C8: round trip. insert_component<T>(e, v) directly followed by
\* remove_component<T>(e) leaves e with the archetype hash, the component-type
\* set and the component values (T absent) it had before the insertion.
C8_RoundTrip ==
    (/\ ~panicked
     /\ last.op = "remove_component"
     /\ last.prev.op = "insert_component"
     /\ last.prev.id = last.id
     /\ last.prev.ty = last.ty)
        => Obs(archetypes, index, last.id) = last.prev.obs


\* ------------------------------------------------ ArchetypeStorage claims
\* the last call was a move_entity that returned
Moved == last.op = "move_entity" /\ ~last.failed

\* C2: migration preserves data. After self.move_entity(dst, row) returned
\* new_row, every component type carried by both archetypes for which self
\* held a value at row reads back with that value at new_row of dst.
C2_MigrationPreservesData ==
    Moved =>
        \A t \in (DOMAIN last.pre[last.arch].components)
                    \cap (DOMAIN last.pre[last.dst].components) :
            get_component(last.pre[last.arch], t, last.row) # None
                => get_component(archetypes[last.dst], t, last.res)
                     = get_component(last.pre[last.arch], t, last.row)

\* C4: row indices are never reused. No two insert_entity calls on the same
\* archetype returned the same row index.
C4_RowsNeverReused ==
    \A i \in 1..Len(handed) : \A j \in 1..Len(handed) :
        i # j => handed[i] # handed[j]

\* C5: live-row count. rows (len) is the number of row indices that have an
\* entry in the entities column, and is_empty holds exactly when there is none.
C5_LiveRowCount ==
    ~panicked =>
        \A k \in DOMAIN archetypes :
            /\ len(archetypes[k]) = Cardinality(DOMAIN archetypes[k].entities)
            /\ is_empty(archetypes[k]) <=> (DOMAIN archetypes[k].entities = {})

\* XOR of hash_ty over a set of types
RECURSIVE XorOver(_)
XorOver(S) ==
    IF S = {} THEN 0
    ELSE LET t == CHOOSE x \in S : TRUE
         IN BitXor(hash_ty(t), XorOver(S \ {t}))

HashIdentity(A) == A.ty = XorOver(DOMAIN A.components)

\* C6: hash identity. Every archetype built from empty() by extend_with_column,
\* reduce_with_column and clone_empty has ty equal to the XOR of hash_ty over
\* the keys of its components map.
C6_HashIdentity ==
    /\ \A k \in DOMAIN archetypes : HashIdentity(archetypes[k])
    /\ last.result # None => HashIdentity(last.result[1])

\* a reduction that followed an extension has returned, and an archetype with
\* every column exists
C6_Witness ==
    /\ last.op = "reduce_with_column" /\ ~last.failed
    /\ last.prev.op = "extend_with_column"
    /\ last.result # None /\ HashIdentity(last.result[1])
    /\ \E k \in DOMAIN archetypes : DOMAIN archetypes[k].components = Types

\* C7: after self.move_entity(dst, row) the source holds nothing at row, in the
\* entities column and in every component column.
C7_SourceRowCleared ==
    Moved =>
        /\ last.row \notin DOMAIN archetypes[last.arch].entities
        /\ \A t \in DOMAIN archetypes[last.arch].components :
              last.row \notin DOMAIN archetypes[last.arch].components[t]

\* C9: order independence. For every archetype S and distinct types A, B not in
\* S, extending with A then B and with B then A give the same hash and the
\* same component-type set, and one extension XORs hash_ty of the new type in.
C9_OrderIndependence ==
    \A k \in DOMAIN archetypes :
        LET S == archetypes[k]
        IN \A A \in Types \ DOMAIN S.components :
             \A B \in Types \ ((DOMAIN S.components) \cup {A}) :
                LET sa == extend_with_column(S, A).res[1]
                    sb == extend_with_column(S, B).res[1]
                    ab == extend_with_column(sa, B).res[1]
                    ba == extend_with_column(sb, A).res[1]
                IN /\ ab.ty = ba.ty
                   /\ DOMAIN ab.components = DOMAIN ba.components
                   /\ DOMAIN ab.components = (DOMAIN S.components) \cup {A, B}
                   /\ sa.ty = BitXor(S.ty, hash_ty(A))

\* both orders were taken: archetypes with the columns Unit+Pos and Unit+Vel
\* are kept, and the last extension returned a storage with every column whose
\* hash was already kept for a storage with the same columns
C9_Witness ==
    /\ last.op = "extend_with_column" /\ ~last.failed
    /\ DOMAIN last.result[1].components = Types
    /\ last.result[1].ty \in DOMAIN last.pre
    /\ DOMAIN last.pre[last.result[1].ty].components = Types
    /\ \E k \in DOMAIN archetypes :
          DOMAIN archetypes[k].components = {"Unit", "Pos"}
    /\ \E k \in DOMAIN archetypes :
          DOMAIN archetypes[k].components = {"Unit", "Vel"}

\* ----------------------------------------------------------- stage claims
\* a plain parameter list holding Query<&mut C> and Query<&C> for one type C
MutAndConst(params) ==
    \E i \in 1..Len(params), j \in 1..Len(params), C \in Components :
        /\ i # j
        /\ params[i] = Query("mut", C)
        /\ params[j] = Query("const", C)

\* C10: a system with the plain parameter list (Query<&mut C>, Query<&C>) is
\* rejected at stage-build time: no stage that was built holds such a system.
C10_RejectedAtBuild ==
    ~panicked => \A i \in 1..Len(stage) : ~MutAndConst(stage[i].params)


\* the write set and the read set of the inner queries of a QuerySet
InnerWrites(p) ==
    {p.inner[i].ty : i \in {j \in 1..Len(p.inner) : p.inner[j].access = "mut"}}
InnerReads(p) ==
    {p.inner[i].ty : i \in {j \in 1..Len(p.inner) : p.inner[j].access = "const"}}

\* the last call was WorldQuery::`which` of a QuerySet
OnQuerySet(which) ==
    /\ accessed.which = which
    /\ accessed.param # << >>
    /\ accessed.param[1].kind = "QuerySet"

\* C11: QuerySet access reporting. components_mut fails exactly when an inner
\* query writes a type the incoming set already holds (two inner queries naming
\* the same type do not make it fail), and otherwise leaves the incoming set
\* united with the write sets of all inner queries; components_const leaves
\* the incoming set united with the read sets of all inner queries.
C11_QuerySetAccess ==
    /\ OnQuerySet("components_mut") =>
          /\ accessed.failed
                <=> (InnerWrites(accessed.param[1]) \cap accessed.incoming # {})
          /\ ~accessed.failed =>
                accessed.set = accessed.incoming \cup InnerWrites(accessed.param[1])
    /\ OnQuerySet("components_const") =>
          /\ ~accessed.failed
          /\ accessed.set = accessed.incoming \cup InnerReads(accessed.param[1])

\* components_mut of QuerySet<(Query<&mut C>, Query<&mut C>)> returned, with
\* another type already in the incoming set
C11_Witness ==
    /\ OnQuerySet("components_mut")
    /\ ~accessed.failed
    /\ accessed.incoming # {}
    /\ accessed.param[1].inner[1] = accessed.param[1].inner[2]
    /\ accessed.param[1].inner[1].access = "mut"
    /\ accessed.set = accessed.incoming \cup {accessed.param[1].inner[1].ty}


\* the types a parameter list declares as written and as read
ParamQueries(p) == IF p.kind = "QuerySet" THEN {p.inner[1], p.inner[2]} ELSE {p}
DeclaredQueries(sys) == UNION {ParamQueries(sys.params[i]) : i \in 1..Len(sys.params)}
Writes(sys) == {q.ty : q \in {x \in DeclaredQueries(sys) : x.access = "mut"}}
Reads(sys) == {q.ty : q \in {x \in DeclaredQueries(sys) : x.access = "const"}}
Conflicting(s, t) ==
    \/ Writes(s) \cap (Writes(t) \cup Reads(t)) # {}
    \/ Writes(t) \cap Reads(s) # {}

RowPairs(A, T1, T2) ==
    LET rows == Ascending(DOMAIN A.entities)
    IN  [i \in 1..Len(rows) |-> << A.components[T1][rows[i]], A.components[T2][rows[i]] >>]

\* C13: two-component iteration is row-aligned. In every archetype carrying
\* Pos and Vel, ComponentQuery<(&Pos, &Vel)>::iter yields one pair per live
\* row, in ascending row order, both elements being the values of that row.
C13_PairsRowAligned ==
    ~panicked =>
        \A k \in DOMAIN archetypes :
            LET A == archetypes[k]
            IN  {"Pos", "Vel"} \subseteq DOMAIN A.components =>
                  /\ \A r \in DOMAIN A.entities :
                        /\ r \in DOMAIN A.components["Pos"]
                        /\ r \in DOMAIN A.components["Vel"]
                  /\ iter2(A, "Pos", "Vel") = RowPairs(A, "Pos", "Vel")


\* the archetype a constructor was called on, as it was before the call, and
\* what the constructor returned
Built(op) == last.op = op /\ ~last.failed /\ last.result # None
EmptyOver(A, types) ==
    /\ A.rows = 0
    /\ DOMAIN A.entities = {}
    /\ DOMAIN A.components = types
    /\ \A t \in types : DOMAIN A.components[t] = {}

\* C14: extend_with_column<T> fails exactly when self carries T; otherwise it
\* returns an archetype over self's columns plus T with rows = 0, no entity
\* entry, every column empty and ty = self.ty XOR hash_ty(T); self is unchanged.
C14_ExtendResult ==
    last.op = "extend_with_column" =>
        LET S == last.pre[last.arch]
        IN  /\ last.failed <=> (last.ty \in DOMAIN S.components)
            /\ ~last.failed =>
                  /\ last.result # None
                  /\ EmptyOver(last.result[1], DOMAIN S.components \cup {last.ty})
                  /\ last.result[1].ty = BitXor(S.ty, hash_ty(last.ty))
            /\ archetypes[last.arch] = S

\* extend_with_column returned for an archetype holding rows and values
C14_Witness ==
    /\ Built("extend_with_column")
    /\ last.pre[last.arch].rows > 0
    /\ \E t \in DOMAIN last.pre[last.arch].components :
          DOMAIN last.pre[last.arch].components[t] # {}
    /\ last.ty \in DOMAIN last.result[1].components

\* C15: reduce_with_column<T> fails exactly when self lacks T; otherwise it
\* returns an archetype over self's columns minus T with rows = 0, no entity
\* entry, every column empty and ty = self.ty XOR hash_ty(T); self is unchanged.
C15_ReduceResult ==
    last.op = "reduce_with_column" =>
        LET S == last.pre[last.arch]
        IN  /\ last.failed <=> (last.ty \notin DOMAIN S.components)
            /\ ~last.failed =>
                  /\ last.result # None
                  /\ EmptyOver(last.result[1], DOMAIN S.components \ {last.ty})
                  /\ last.result[1].ty = BitXor(S.ty, hash_ty(last.ty))
            /\ archetypes[last.arch] = S

\* reduce_with_column returned for an archetype holding rows and a T value
C15_Witness ==
    /\ Built("reduce_with_column")
    /\ last.pre[last.arch].rows > 0
    /\ DOMAIN last.pre[last.arch].components[last.ty] # {}
    /\ last.ty \notin DOMAIN last.result[1].components

\* page tables s and t hold the same entries at every row but r
SameBut(s, t, r) ==
    /\ DOMAIN s \ {r} = DOMAIN t \ {r}
    /\ \A x \in DOMAIN s \ {r} : s[x] = t[x]

SetDone == last.op = "set_component" /\ ~last.failed

\* C16: set_component read-back. After set_component<T>(id, r, v) on an
\* archetype carrying T, get_component<T>(r) is v and entities holds id at r;
\* every other column, and every other row of the T column and of entities,
\* is as before.
C16_SetReadBack ==
    SetDone =>
        LET S == last.pre[last.arch]
            A == archetypes[last.arch]
        IN  /\ get_component(A, last.ty, last.row) = Some(last.val)
            /\ PageTableGet(A.entities, last.row) = Some(last.id)
            /\ DOMAIN A.components = DOMAIN S.components
            /\ \A t \in DOMAIN S.components \ {last.ty} :
                  A.components[t] = S.components[t]
            /\ SameBut(A.components[last.ty], S.components[last.ty], last.row)
            /\ SameBut(A.entities, S.entities, last.row)

\* set_component returned with another row holding a T value and with an id
\* the row did not hold
C16_Witness ==
    /\ SetDone
    /\ last.pre[last.arch].entities[last.row] # last.id
    /\ \E r \in DOMAIN last.pre[last.arch].components[last.ty] : r # last.row

\* C17: remove(row) on a live row takes the row out of entities and of every
\* component column and decrements rows by one; every other row keeps its
\* entity id and its values; iteration over any column no longer meets the row.
C17_RemoveFrame ==
    last.op = "remove" =>
        LET S == last.pre[last.arch]
            A == archetypes[last.arch]
        IN  /\ last.row \notin DOMAIN A.entities
            /\ A.rows = S.rows - 1
            /\ SameBut(A.entities, S.entities, last.row)
            /\ DOMAIN A.components = DOMAIN S.components
            /\ \A t \in DOMAIN S.components :
                  /\ last.row \notin DOMAIN A.components[t]
                  /\ SameBut(A.components[t], S.components[t], last.row)
                  /\ \A i \in 1..Len(PageTableIter(A.components[t])) :
                        PageTableIter(A.components[t])[i][1] # last.row
                  /\ Len(iter(A, t)) = Cardinality(DOMAIN S.components[t] \ {last.row})

\* remove took out a row that held a component value while another row is live
C17_Witness ==
    /\ last.op = "remove"
    /\ \E t \in DOMAIN last.pre[last.arch].components :
          last.row \in DOMAIN last.pre[last.arch].components[t]
    /\ DOMAIN archetypes[last.arch].entities # {}


\* get_component answers None wherever the archetype holds no T value at the row
NoneWhereAbsent ==
    \A k \in DOMAIN archetypes : \A T \in Types : \A r \in Rows :
        (\/ T \notin DOMAIN archetypes[k].components
         \/ r \notin DOMAIN archetypes[k].components[T])
            => get_component(archetypes[k], T, r) = None

\* single-column iteration over a type the archetype does not carry is empty
EmptyWhereAbsent ==
    \A k \in DOMAIN archetypes : \A T \in Types \ DOMAIN archetypes[k].components :
        iter(archetypes[k], T) = << >>

\* get_component answers None at the row a remove call took out
NoneAfterRemove ==
    last.op = "remove" =>
        \A T \in Types : get_component(archetypes[last.arch], T, last.row) = None

\* get_component answers None at the source row of a migration
NoneAfterMove ==
    Moved =>
        \A T \in Types : get_component(archetypes[last.arch], T, last.row) = None

\* C18: absence is a value. get_component<T>(row) is None whenever the
\* archetype does not carry T or the T column has no value at row, rows that
\* were removed or migrated away included; iteration over a type the archetype
\* does not carry yields nothing.
C18_AbsenceIsNone ==
    /\ NoneWhereAbsent
    /\ EmptyWhereAbsent
    /\ NoneAfterRemove
    /\ NoneAfterMove

\* C19: move_entity touches only the migrated entity. After
\* self.move_entity(dst, row) returned new_row, every row of dst that was live
\* before keeps its entity id and its component values, no row of dst but
\* new_row differs from before, and no row of self but `row` differs.
C19_MoveFrame ==
    Moved =>
        LET S == last.pre[last.arch]
            A == archetypes[last.arch]
            D0 == last.pre[last.dst]
            D == archetypes[last.dst]
        IN  /\ \A r \in DOMAIN D0.entities :
                  /\ PageTableGet(D.entities, r) = PageTableGet(D0.entities, r)
                  /\ \A t \in DOMAIN D0.components :
                        get_component(D, t, r) = get_component(D0, t, r)
            /\ SameBut(D.entities, D0.entities, last.res)
            /\ \A t \in DOMAIN D0.components :
                  SameBut(D.components[t], D0.components[t], last.res)
            /\ SameBut(A.entities, S.entities, last.row)
            /\ \A t \in DOMAIN S.components :
                  SameBut(A.components[t], S.components[t], last.row)

\* C20: a failing set_component leaves no trace. set_component<T> on an
\* archetype that does not carry T fails and leaves the archetype as it was:
\* entities, every column and rows.
C20_FailedSetNoTrace ==
    last.op = "set_component" =>
        /\ last.failed <=> (last.ty \notin DOMAIN last.pre[last.arch].components)
        /\ last.failed => archetypes[last.arch] = last.pre[last.arch]

====
